---- MODULE Spec2Model ----
(***************************************************************************)
(* Model of pytorch_lightning/loggers/gdrive.py: the spreadsheet metrics   *)
(* logger (Table, MetricsWorkSheet, GDriveLogger).                         *)
(*                                                                         *)
(* The remote worksheet is a partial function from <<row, col>> to the     *)
(* value stored there.  A Python dict is a sequence of [k, v] pairs with   *)
(* distinct keys (dicts keep insertion order).  Python values are records  *)
(* [kind, n, s] so that values of different Python types can be compared.  *)
(*                                                                         *)
(* Environment assumptions: the remote reads (acell, row_values, range)    *)
(* and the small synchronous writes (update) succeed; the batched write    *)
(* update_cells either applies all its cells and returns, or raises and    *)
(* applies none.                                                           *)
(***************************************************************************)
EXTENDS Integers, Sequences, FiniteSets, TLC

\* ---------------------------------------------------------------- bounds
\* LogMetrics calls made in one run
MaxLogs == 4
\* logger instances opened one after the other on the same worksheet
MaxSessions == 2
\* LogMetrics calls made in one run when several instances are opened
MaxSessionLogs == 2
\* the calls of LogMetrics and of Table.update in a run that calls update directly
MaxTableCalls == 3

\* ---------------------------------------------------------------- values
None == [kind |-> "none", n |-> 0, s |-> ""]
Num(n) == [kind |-> "num", n |-> n, s |-> ""]
Str(s) == [kind |-> "str", n |-> 0, s |-> s]
\* a torch.Tensor holding the scalar n
Tensor(n) == [kind |-> "tensor", n |-> n, s |-> ""]
\* any other Python object, with the text str() gives for it
Obj(s) == [kind |-> "obj", n |-> 0, s |-> s]

KV(k, v) == [k |-> k, v |-> v]
Keys(d) == {d[i].k : i \in DOMAIN d}
Get(d, key) == d[CHOOSE i \in DOMAIN d : d[i].k = key].v
SeqMax(S) == IF S = {} THEN 0 ELSE CHOOSE x \in S : \A y \in S : y <= x

Cell(r, c, v) == [row |-> r, col |-> c, value |-> v]
Coord(cell) == <<cell.row, cell.col>>

\* one call to the remote service: its name, the cells it carries, whether it returned
Call(api, cells, ok) == [api |-> api, cells |-> cells, ok |-> ok]

\* ---------------------------------------------------------------- inputs
\* the process ranks of a distributed job
Ranks == {0, 1}
\* what cell B1 of a worksheet holds before the first logger is opened on it
InitialB1 == {None, Num(1)}
\* the step arguments of log_metrics
Steps == {None, Num(1), Num(2)}
\* the metrics arguments of log_metrics
MetricsInputs ==
    { <<KV("loss", Num(20)), KV("acc", Num(1))>>,
      <<KV("acc", Num(1)), KV("loss", Num(20))>>,
      <<KV("val_loss", Tensor(5))>> }
\* the rows Table.update is called with directly: one lacking acc, one lacking
\* step, and one holding a value for val_loss and for step
RowInputs ==
    { <<KV("step", Num(1)), KV("loss", Num(20))>>,
      <<KV("loss", Num(20)), KV("acc", Num(1))>>,
      <<KV("val_loss", Tensor(5)), KV("step", None)>> }
\* the status arguments of finalize
Statuses == {"success", "failed", "interrupted"}
\* the params arguments of log_hyperparams (already a dict)
ParamsInputs ==
    { <<KV("optimizer_name", Str("adam")), KV("layers", Obj("[1, 2]"))>> }

\* the version arguments of GDriveLogger(...): None, an int or a str (its characters)
VNone == [kind |-> "none", n |-> 0, title |-> <<>>]
VInt(n) == [kind |-> "int", n |-> n, title |-> <<>>]
VStr(chars) == [kind |-> "str", n |-> 0, title |-> chars]
VersionArgs == {VNone, VInt(0), VInt(2), VStr(<<"f", "i", "n", "a", "l">>)}

\* "version_"
VersionPrefix == <<"v", "e", "r", "s", "i", "o", "n", "_">>
File(title, dir) == [title |-> title, dir |-> dir]
\* what the experiment's root folder may hold before the first logger is made:
\* folders version_0, version_1, version_10 and a file (no folder) version_7
InitialFiles ==
    { File(VersionPrefix \o <<"0">>, TRUE),
      File(VersionPrefix \o <<"1">>, TRUE),
      File(VersionPrefix \o <<"1", "0">>, TRUE),
      File(VersionPrefix \o <<"7">>, FALSE) }

VARIABLES
    rank,            \* the rank of the process the logger lives in
    ws,              \* the remote metrics worksheet: <<row, col>> -> value
    hparams_ws,      \* the remote hyperparams worksheet: sequence of rows
    header_row,      \* MetricsWorkSheet._header_row
    tables,          \* MetricsWorkSheet._schema_to_table, in insertion order
    op,              \* the operation that ran last
    raised,          \* whether it ended by raising to its caller
    calls,           \* the remote calls it made, in order
    key,             \* the key-set it looked up, when it was log_metrics ({} otherwise)
    logged,          \* per Table, the step arguments of the calls routed to it
    history,         \* per Table, the keys of its creating mapping in order, and the cells staged so far
    written,         \* coordinates sent by the earlier successful Saves of this instance
    separated,       \* every Table but the first was created right after a successful Save
    nlogs,           \* LogMetrics calls made so far
    nsessions,       \* logger instances opened so far
    drive,           \* the experiment's root folder on the file store: [root, files]
    _version,        \* GDriveLogger._version of the logger constructed last
    ctor             \* the last GDriveLogger(...) call: its version argument and how it ended

vars == <<rank, ws, hparams_ws, header_row, tables, op, raised, calls, key,
          logged, history, written, separated, nlogs, nsessions, drive, _version, ctor>>

\* the variables of the facade's provisioning
fvars == <<drive, _version, ctor>>

\* ---------------------------------------------------------------- the remote worksheet
EmptySheet == [x \in {} |-> None]

\* the cell of the worksheet at a coordinate, None when it is empty
Stored(w, r, c) == IF <<r, c>> \in DOMAIN w THEN w[<<r, c>>] ELSE None

\* the text a read of a stored value returns
Format(v) == IF v.kind = "num" THEN ToString(v.n) ELSE v.s

\* int(text) for the decimal text of a small natural number
ParseInt(text) == CHOOSE n \in 0..99 : ToString(n) = text

\* Worksheet.acell(...).value: the text of the cell, "" when it is empty
ACell(w, r, c) == IF <<r, c>> \in DOMAIN w THEN Format(w[<<r, c>>]) ELSE ""

\* Worksheet.row_values(r): the texts of row r up to its last non-empty cell
RowValues(w, r) ==
    LET last == SeqMax({x[2] : x \in {y \in DOMAIN w : y[1] = r}})
    IN  [c \in 1..last |-> ACell(w, r, c)]

\* the cells a batched write stores: for each coordinate the last cell of the
\* list decides, and a cell whose value is None is skipped
WriteCells(w, cells) ==
    LET lastAt(x) == SeqMax({i \in DOMAIN cells : Coord(cells[i]) = x})
        eff == {x \in {Coord(cells[i]) : i \in DOMAIN cells} : cells[lastAt(x)].value # None}
    IN  [x \in DOMAIN w \cup eff |-> IF x \in eff THEN cells[lastAt(x)].value ELSE w[x]]

\* ---------------------------------------------------------------- Table
\* v.item() for a tensor, v otherwise
Item(v) == IF v.kind = "tensor" THEN Num(v.n) ELSE v

\* Table.update(row) asking for the range one column to the right
TableUpdate_ShiftedColumns(t, row) ==
    LET n == Len(t._metrics_header)
        staged == [i \in 1..n |->
                      Cell(t._last_step, t._col_offset + i,
                           Item(Get(row, t._metrics_header[i])))]
    IN  [t EXCEPT !.cells_buffer = @ \o staged, !._last_step = @ + 1]

\* Table.update(row) without `self._last_step += 1`
TableUpdate_NoAdvance(t, row) ==
    LET n == Len(t._metrics_header)
        staged == [i \in 1..n |->
                      Cell(t._last_step, t._col_offset + i - 1,
                           Item(Get(row, t._metrics_header[i])))]
    IN  [t EXCEPT !.cells_buffer = @ \o staged]

\* the header names row[...] raises KeyError for
MissingKeys(t, row) == {i \in DOMAIN t._metrics_header : t._metrics_header[i] \notin Keys(row)}

\* whether Table.update(row) raises
UpdateRaises(t, row) == MissingKeys(t, row) # {}

\* Table.update(row): the loop stages cell after cell and stops at the first
\* name the row lacks, before `self._last_step += 1`
TableUpdate(t, row) ==
    LET n == Len(t._metrics_header)
        missing == MissingKeys(t, row)
        stop == IF missing = {} THEN n
                ELSE (CHOOSE i \in missing : \A j \in missing : i <= j) - 1
        staged == [i \in 1..stop |->
                      Cell(t._last_step, t._col_offset + i - 1,
                           Item(Get(row, t._metrics_header[i])))]
    IN  [t EXCEPT !.cells_buffer = @ \o staged,
                  !._last_step = IF missing = {} THEN @ + 1 ELSE @]

\* the column offset without the separator column: len(header) + 1
ColOffset_NoSeparator(w, hr) ==
    LET header == RowValues(w, hr)
    IN  IF Len(header) = 0 THEN 1 ELSE Len(header) + 1

\* the column a new Table starts at when the header row is not read
ColOffset_FromStart(w, hr) == 1

\* the column a new Table starts at, from the header row of the remote worksheet
ColOffset(w, hr) ==
    LET header == RowValues(w, hr)
    IN  IF Len(header) = 0 THEN 1 ELSE Len(header) + 2

\* the header names with step after the other keys
MetricsHeader_StepLast(metrics) ==
    LET step == Get(metrics, "step")
        _metrics == SelectSeq(metrics, LAMBDA e : e.k # "step")
    IN  [i \in DOMAIN _metrics |-> _metrics[i].k]
            \o (IF step # None THEN <<"step">> ELSE <<>>)

\* the header names with step whether or not a step was given
MetricsHeader_AlwaysStep(metrics) ==
    LET _metrics == SelectSeq(metrics, LAMBDA e : e.k # "step")
    IN  <<"step">> \o [i \in DOMAIN _metrics |-> _metrics[i].k]

\* the header names of a new Table: step first when a step was given
MetricsHeader(metrics) ==
    LET step == Get(metrics, "step")
        _metrics == SelectSeq(metrics, LAMBDA e : e.k # "step")
    IN  (IF step # None THEN <<"step">> ELSE <<>>)
            \o [i \in DOMAIN _metrics |-> _metrics[i].k]

\* Table.__init__(ws, header_row, metrics), stored under its schema
TableInit(w, hr, metrics) ==
    LET names == MetricsHeader(metrics)
        t0 == [schema |-> Keys(metrics),
               cells_buffer |-> <<>>,
               _col_offset |-> ColOffset(w, hr),
               _last_step |-> hr,
               _metrics_header |-> names]
    IN  TableUpdate(t0, [i \in DOMAIN names |-> KV(names[i], Str(names[i]))])

\* ---------------------------------------------------------------- MetricsWorkSheet
\* the header row a new MetricsWorkSheet resolves from cell B1
ResolveHeaderRow(w) ==
    LET hr == ACell(w, 1, 2)
    IN  IF hr # "" THEN ParseInt(hr) ELSE 3

\* update('A1:B1', ...) writing the default instead of the resolved header row
HeaderRowCells_Default(hr) == <<Cell(1, 1, Str("header_row")), Cell(1, 2, Num(3))>>

\* the cells update('A1:B1', [["header_row", self._header_row]]) writes
HeaderRowCells(hr) == <<Cell(1, 1, Str("header_row")), Cell(1, 2, Num(hr))>>

\* {**metrics, 'step': step}
FullMetrics(metrics, step) ==
    IF "step" \in Keys(metrics)
    THEN [i \in DOMAIN metrics |->
             IF metrics[i].k = "step" THEN KV("step", step) ELSE metrics[i]]
    ELSE Append(metrics, KV("step", step))

HasTable(tbls, fs) == \E i \in DOMAIN tbls : tbls[i].schema = fs
TableIndex(tbls, fs) == CHOOSE i \in DOMAIN tbls : tbls[i].schema = fs

\* _get_table_for_set_of_metrics without the `if fs not in` test
GetTableForSetOfMetrics_AlwaysNew(tbls, w, hr, metrics) ==
    Append(tbls, TableInit(w, hr, metrics))

\* _get_table_for_set_of_metrics: the mapping after the lookup
GetTableForSetOfMetrics(tbls, w, hr, metrics) ==
    IF ~HasTable(tbls, Keys(metrics))
    THEN Append(tbls, TableInit(w, hr, metrics))
    ELSE tbls

\* the cell list with the Tables taken last-created first
Aggregate_Reversed(tbls) ==
    LET RECURSIVE agg(_)
        agg(i) == IF i = 0 THEN <<>> ELSE tbls[i].cells_buffer \o agg(i - 1)
    IN  agg(Len(tbls))

\* the cell list save() builds
Aggregate(tbls) ==
    LET RECURSIVE agg(_)
        agg(i) == IF i = 0 THEN <<>> ELSE agg(i - 1) \o tbls[i].cells_buffer
    IN  agg(Len(tbls))

ClearBuffers(tbls) == [i \in DOMAIN tbls |-> [tbls[i] EXCEPT !.cells_buffer = <<>>]]

\* save() without the emptiness test
ShouldWrite_Always(cells) == TRUE

\* `if aggregated_cell_buffers:`
ShouldWrite(cells) == cells # <<>>

\* the buffers cleared whether or not the write returned
BuffersAfterSave_Always(tbls, ok) == ClearBuffers(tbls)

\* the buffers after the batched write returned (ok) or raised
BuffersAfterSave(tbls, ok) == IF ok THEN ClearBuffers(tbls) ELSE tbls


\* rank_zero_only: the wrapped method runs only on rank 0
RankZero == rank = 0

\* ---------------------------------------------------------------- GDriveLogger.log_hyperparams
StrOf(v) ==
    CASE v.kind = "tensor" -> "tensor(" \o ToString(v.n) \o ")"
      [] v.kind = "none" -> "None"
      [] OTHER -> v.s

HparamRows(params) ==
    <<KV("hyperparameter", Str("value"))>>
        \o [i \in DOMAIN params |->
               IF params[i].v.kind \in {"str", "num"}
               THEN params[i]
               ELSE KV(params[i].k, Str(StrOf(params[i].v)))]

HparamCells(params) ==
    LET rows == HparamRows(params)
    IN  [j \in 1..(2 * Len(rows)) |->
            LET r == (j + 1) \div 2
            IN  IF j % 2 = 1 THEN Cell(r, 1, Str(rows[r].k)) ELSE Cell(r, 2, rows[r].v)]

\* ---------------------------------------------------------------- GDriveLogger provisioning
\* str(d) for a digit d, and its inverse
DigitChar(d) == ToString(d)
IsDigit(ch) == \E d \in 0..9 : DigitChar(d) = ch
DigitVal(ch) == CHOOSE d \in 0..9 : DigitChar(d) = ch

\* the decimal text of n
RECURSIVE Digits(_)
Digits(n) == IF n < 10 THEN <<DigitChar(n)>> ELSE Digits(n \div 10) \o <<DigitChar(n % 10)>>

\* int(text): the number, or -1 where Python raises ValueError
RECURSIVE IntOf(_)
IntOf(text) ==
    IF text = <<>> \/ \E i \in DOMAIN text : ~IsDigit(text[i]) THEN -1
    ELSE IF Len(text) = 1 THEN DigitVal(text[1])
    ELSE 10 * IntOf(SubSeq(text, 1, Len(text) - 1)) + DigitVal(text[Len(text)])

\* title.startswith(prefix)
StartsWith(title, prefix) ==
    Len(title) >= Len(prefix) /\ SubSeq(title, 1, Len(prefix)) = prefix

\* title.split("_")[1], for a title that holds a "_"
SplitSecond(title) ==
    LET first == CHOOSE i \in DOMAIN title :
                    title[i] = "_" /\ \A j \in 1..(i - 1) : title[j] # "_"
        rest == SubSeq(title, first + 1, Len(title))
        stop == IF \E i \in DOMAIN rest : rest[i] = "_"
                               THEN (CHOOSE i \in DOMAIN rest :
                                        rest[i] = "_" /\ \A j \in 1..(i - 1) : rest[j] # "_") - 1
                               ELSE Len(rest)
    IN  SubSeq(rest, 1, stop)

\* the attributes GDriveLogger.__init__ has assigned when it reaches line 106
AttrsBeforeVersion == {"_rank", "_name", "drive", "gc"}

\* _get_next_version(), called on an instance holding the attributes attrs
GetNextVersion(attrs, files) ==
    IF "root_folder_id" \notin attrs
    THEN [status |-> "AttributeError", value |-> VNone]
    ELSE LET existing_versions ==
                 {IntOf(SplitSecond(d.title)) :
                     d \in {f \in files : f.dir /\ StartsWith(f.title, VersionPrefix)}}
         IN  IF -1 \in existing_versions THEN [status |-> "ValueError", value |-> VNone]
             ELSE IF existing_versions = {} THEN [status |-> "ok", value |-> VInt(0)]
             ELSE [status |-> "ok", value |-> VInt(SeqMax(existing_versions) + 1)]

\* the name of the run folder of a resolved version
VersionFolder(v) == IF v.kind = "str" THEN v.title ELSE VersionPrefix \o Digits(v.n)

\* _find_or_create_folder(title) under the root folder: the files afterwards
FindOrCreateFolder(files, title) ==
    IF \E f \in files : f.dir /\ f.title = title THEN files
    ELSE files \cup {File(title, TRUE)}

\* the read-only property `version`
Version == _version

TypeOK ==
    /\ rank \in Ranks
    /\ header_row \in Nat
    /\ op \in {"init", "new_logger", "log_metrics", "update", "save", "finalize",
              "log_hyperparams"}
    /\ raised \in BOOLEAN
    /\ Len(logged) = Len(tables)
    /\ Len(history) = Len(tables)

\* ---------------------------------------------------------------- operations
\* MetricsWorkSheet.__init__ on a worksheet holding w, in a process of rank r
Construct(w, r) ==
    LET hr == ResolveHeaderRow(w)
    IN  /\ rank' = r
        /\ header_row' = hr
        /\ ws' = WriteCells(w, HeaderRowCells(hr))
        /\ tables' = <<>>
        /\ op' = "init"
        /\ raised' = FALSE
        /\ calls' = <<Call("acell", <<Cell(1, 2, Stored(w, 1, 2))>>, TRUE),
                     Call("update", HeaderRowCells(hr), TRUE)>>
        /\ key' = {}
        /\ logged' = <<>>
        /\ history' = <<>>
        /\ written' = {}
        /\ separated' = TRUE

\* the state after GDriveLogger(name, version=0) in a process of rank r, on a
\* root folder holding files0 and a metrics worksheet whose B1 holds b1
InitOn(r, b1, files0) ==
    LET w == IF b1 = None THEN EmptySheet ELSE WriteCells(EmptySheet, <<Cell(1, 2, b1)>>)
        hr == ResolveHeaderRow(w)
    IN  /\ rank = r
        /\ header_row = hr
        /\ ws = WriteCells(w, HeaderRowCells(hr))
        /\ hparams_ws = EmptySheet
        /\ tables = <<>>
        /\ op = "init"
        /\ raised = FALSE
        /\ calls = <<Call("acell", <<Cell(1, 2, Stored(w, 1, 2))>>, TRUE),
                    Call("update", HeaderRowCells(hr), TRUE)>>
        /\ key = {}
        /\ logged = <<>>
        /\ history = <<>>
        /\ written = {}
        /\ separated = TRUE
        /\ nlogs = 0
        /\ nsessions = 1
        /\ drive = [root |-> TRUE, files |-> FindOrCreateFolder(files0, VersionFolder(VInt(0)))]
        /\ _version = VInt(0)
        /\ ctor = [arg |-> VInt(0), status |-> "ok"]

Init == \E r \in Ranks, b1 \in InitialB1 : InitOn(r, b1, {})

\* a new logger instance is opened on the same worksheet
NewSession ==
    /\ nsessions < MaxSessions
    /\ \E r \in Ranks : Construct(ws, r)
    /\ nsessions' = nsessions + 1
    /\ UNCHANGED <<hparams_ws, nlogs>>
    /\ UNCHANGED fvars

\* a call the rank_zero_only wrapper discards
Discarded(name) ==
    /\ ~RankZero
    /\ op' = name
    /\ raised' = FALSE
    /\ calls' = <<>>
    /\ key' = {}
    /\ UNCHANGED <<rank, ws, hparams_ws, header_row, tables, logged, history, written,
                   separated, nlogs, nsessions, drive, _version, ctor>>

\* log_metrics(metrics, step)
LogMetrics(metrics, step) ==
    \/ Discarded("log_metrics")
    \/ /\ RankZero
       /\ nlogs < MaxLogs
       /\ LET full_metrics == FullMetrics(metrics, step)
              fs == Keys(full_metrics)
              isNew == ~HasTable(tables, fs)
              tbls == GetTableForSetOfMetrics(tables, ws, header_row, full_metrics)
              i == TableIndex(tbls, fs)
          IN  /\ tables' = [tbls EXCEPT ![i] = TableUpdate(@, full_metrics)]
              /\ key' = fs
              /\ calls' = IF isNew
                          THEN <<Call("row_values", <<>>, TRUE), Call("range", <<>>, TRUE),
                                 Call("range", <<>>, TRUE)>>
                          ELSE <<Call("range", <<>>, TRUE)>>
              /\ logged' = IF isNew THEN Append(logged, <<step>>)
                           ELSE [logged EXCEPT ![i] = Append(@, step)]
              /\ history' =
                    IF isNew
                    THEN Append(history,
                                [creating |-> [j \in DOMAIN metrics |-> metrics[j].k],
                                 staged |-> Len(tables'[i].cells_buffer)])
                    ELSE [history EXCEPT ![i].staged =
                             @ + Len(tables'[i].cells_buffer) - Len(tables[i].cells_buffer)]
              /\ separated' = (separated /\ (isNew /\ tables # <<>>
                                              => op \in {"save", "finalize"} /\ ~raised))
       /\ op' = "log_metrics"
       /\ raised' = FALSE
       /\ nlogs' = nlogs + 1
       /\ UNCHANGED <<rank, ws, hparams_ws, header_row, written, nsessions>>
       /\ UNCHANGED fvars

\* a direct call of Table.update(row) on the i-th Table of the logger
TableUpdateCall(i, row) ==
    /\ i \in DOMAIN tables
    /\ nlogs < MaxTableCalls
    /\ tables' = [tables EXCEPT ![i] = TableUpdate(@, row)]
    /\ raised' = UpdateRaises(tables[i], row)
    /\ op' = "update"
    /\ key' = Keys(row)
    /\ calls' = <<Call("range", <<>>, TRUE)>>
    /\ logged' = IF UpdateRaises(tables[i], row) THEN logged
                 ELSE [logged EXCEPT ![i] =
                          Append(@, IF "step" \in Keys(row) THEN Get(row, "step") ELSE None)]
    /\ history' = [history EXCEPT ![i].staged =
                      @ + Len(tables'[i].cells_buffer) - Len(tables[i].cells_buffer)]
    /\ nlogs' = nlogs + 1
    /\ UNCHANGED <<rank, ws, hparams_ws, header_row, written, separated, nsessions>>
    /\ UNCHANGED fvars

\* the body of save(), run under the name of the operation that was called
SaveAs(name) ==
    \/ Discarded(name)
    \/ /\ RankZero
       /\ LET aggregated_cell_buffers == Aggregate(tables)
          IN  IF ~ShouldWrite(aggregated_cell_buffers)
              THEN /\ calls' = <<>>
                   /\ raised' = FALSE
                   /\ UNCHANGED <<ws, tables, written>>
              ELSE \E ok \in BOOLEAN :
                   /\ calls' = <<Call("update_cells", aggregated_cell_buffers, ok)>>
                   /\ raised' = ~ok
                   /\ tables' = BuffersAfterSave(tables, ok)
                   /\ IF ok
                      THEN /\ ws' = WriteCells(ws, aggregated_cell_buffers)
                           /\ written' = written \cup
                                  {Coord(aggregated_cell_buffers[j]) :
                                      j \in DOMAIN aggregated_cell_buffers}
                      ELSE UNCHANGED <<ws, written>>
       /\ op' = name
       /\ key' = {}
       /\ UNCHANGED <<rank, hparams_ws, header_row, logged, history, separated, nlogs,
                      nsessions>>
       /\ UNCHANGED fvars

\* save()
Save == SaveAs("save")

\* finalize(status) saving only when the status is success
Finalize_OnlyOnSuccess(status) ==
    IF status = "success"
    THEN SaveAs("finalize")
    ELSE /\ op' = "finalize"
         /\ calls' = <<>>
         /\ raised' = FALSE
         /\ key' = {}
         /\ UNCHANGED <<rank, ws, hparams_ws, header_row, tables, logged, history, written,
                        separated, nlogs, nsessions>>
         /\ UNCHANGED fvars

\* finalize(status)
Finalize(status) == SaveAs("finalize")

\* log_hyperparams(params)
LogHyperparams(params) ==
    \/ Discarded("log_hyperparams")
    \/ /\ RankZero
       /\ hparams_ws' = WriteCells(hparams_ws, HparamCells(params))
       /\ calls' = <<Call("update", HparamCells(params), TRUE)>>
       /\ op' = "log_hyperparams"
       /\ key' = {}
       /\ raised' = FALSE
       /\ UNCHANGED <<rank, ws, header_row, tables, logged, history, written, separated,
                      nlogs, nsessions, drive, _version, ctor>>

\* one logger instance: the MetricsWorkSheet operations
Next ==
    \/ \E metrics \in MetricsInputs, step \in Steps : LogMetrics(metrics, step)
    \/ Save
    \/ \E status \in Statuses : Finalize(status)

Spec == Init /\ [][Next]_vars

\* logger instances opened one after the other on one worksheet, in processes
\* of any rank, with the facade's log_hyperparams
NextSessions ==
    \/ NewSession
    \/ \E params \in ParamsInputs : LogHyperparams(params)
    \/ \E metrics \in MetricsInputs, step \in Steps :
          LogMetrics(metrics, step) /\ nlogs' <= MaxSessionLogs
    \/ Save
    \/ \E status \in Statuses : Finalize(status)

SpecSessions == Init /\ [][NextSessions]_vars

\* runs in which Table.update is also called directly on the Tables of the logger
NextTable ==
    \/ \E metrics \in MetricsInputs, step \in Steps :
          LogMetrics(metrics, step) /\ nlogs' <= MaxTableCalls
    \/ \E i \in 1..2, row \in RowInputs : TableUpdateCall(i, row)
    \/ Save
    \/ \E status \in Statuses : Finalize(status)

SpecTable == Init /\ [][NextTable]_vars

\* GDriveLogger(name, version=version, ...) in a process of rank r
NewLogger(version, r) ==
    LET files == IF drive.root THEN drive.files ELSE {}
        resolved == IF version = VNone
                    THEN GetNextVersion(AttrsBeforeVersion, files)
                    ELSE [status |-> "ok", value |-> version]
        version_folder == VersionFolder(resolved.value)
        existed == \E f \in files : f.dir /\ f.title = version_folder
        \* the metrics worksheet of the run folder: as the logger that made the
        \* folder left it, or new
        sheet == IF existed THEN WriteCells(EmptySheet, HeaderRowCells(ResolveHeaderRow(EmptySheet)))
                 ELSE EmptySheet
    IN  /\ ctor' = [arg |-> version, status |-> resolved.status]
        /\ IF resolved.status # "ok"
           THEN /\ op' = "new_logger"
                /\ raised' = TRUE
                /\ calls' = <<>>
                /\ key' = {}
                /\ _version' = VNone
                /\ UNCHANGED <<rank, ws, header_row, tables, logged, history, written,
                               separated, drive>>
           ELSE /\ _version' = version
                /\ drive' = [root |-> TRUE, files |-> FindOrCreateFolder(files, version_folder)]
                /\ Construct(sheet, r)
        /\ UNCHANGED <<hparams_ws, nlogs, nsessions>>

\* the test fixture trashes the experiment's root folder
RemoveExperimentDir ==
    /\ drive.root
    /\ drive' = [root |-> FALSE, files |-> {}]
    /\ UNCHANGED <<rank, ws, hparams_ws, header_row, tables, op, raised, calls, key,
                   logged, history, written, separated, nlogs, nsessions, _version, ctor>>

\* loggers constructed one after the other on one file store
InitFacade == \E r \in Ranks, files0 \in SUBSET InitialFiles : InitOn(r, None, files0)

NextFacade ==
    \/ \E version \in VersionArgs, r \in Ranks : NewLogger(version, r)
    \/ RemoveExperimentDir

SpecFacade == InitFacade /\ [][NextFacade]_vars

\* ---------------------------------------------------------------- properties
SaveOps == {"save", "finalize"}
HeaderCount(t) == Len(t._metrics_header)
\* the columns of a Table's block
Columns(t) == t._col_offset .. (t._col_offset + HeaderCount(t) - 1)
CoordsOf(cells) == {Coord(cells[j]) : j \in DOMAIN cells}
\* the batched writes among the remote calls of an operation
Writes(cs) == {j \in DOMAIN cs : cs[j].api = "update_cells"}
NothingStaged(tbls) == \A i \in DOMAIN tbls : tbls[i].cells_buffer = <<>>
\* the number of cells buffered by the Tables before Table i
RECURSIVE StagedBefore(_, _)
StagedBefore(tbls, i) ==
    IF i <= 1 THEN 0 ELSE StagedBefore(tbls, i - 1) + Len(tbls[i - 1].cells_buffer)

\* C1: the column blocks of any two distinct Tables of a logger are disjoint,
\* also when new key-sets are logged with no Save between them.
C1_ColumnBlocksDisjoint ==
    \A i, j \in DOMAIN tables : i # j => Columns(tables[i]) \cap Columns(tables[j]) = {}

\* C2: the k-th LogMetrics call of a key-set stages its cells in row
\* header_row + k whatever the step; next_row never decreases and no Save,
\* successful or failed, changes it.
C2_RowPerCall ==
    [][\A i \in DOMAIN tables' :
          LET t == tables'[i]
              n == HeaderCount(t)
              b == t.cells_buffer
              k == Len(logged'[i])
          IN  /\ t._last_step = header_row' + 1 + k
              /\ i \in DOMAIN tables => t._last_step >= tables[i]._last_step
              /\ i \in DOMAIN tables /\ op' \in SaveOps
                    => t._last_step = tables[i]._last_step
              /\ (i \notin DOMAIN tables \/ k > Len(logged[i]))
                    => /\ Len(b) >= n
                       /\ \A j \in 1..n : b[Len(b) - n + j].row = header_row' + k]_vars

\* a key-set logged three times with steps 2, 1 and None, then a failed Save
C2_Witness ==
    /\ op \in SaveOps /\ raised
    /\ \E i \in DOMAIN logged : logged[i] = <<Num(2), Num(1), None>>

\* C3: the coordinates a successful Save sends were sent by no earlier
\* successful Save of the logger.  (A failed Save stores nothing, so the
\* statement does not depend on the Saves in between having succeeded.)
C3_SavesDisjoint ==
    [][\A j \in Writes(calls') :
          op' \in SaveOps /\ calls'[j].ok => CoordsOf(calls'[j].cells) \cap written = {}]_vars

\* C4: a Save whose batched write raises propagates the error and leaves
\* every buffer as it was; the Save that follows it sends the same cells; a
\* buffer is emptied only by a Save whose write returned.
C4_FailedSaveKeepsBuffers ==
    [][/\ (\E j \in Writes(calls') : ~calls'[j].ok)
            => raised' /\ tables' = tables /\ ws' = ws
       /\ op \in SaveOps /\ raised /\ op' \in SaveOps
            => /\ Len(calls') = 1
               /\ calls'[1].api = "update_cells"
               /\ calls'[1].cells = calls[1].cells
       /\ \A i \in DOMAIN tables \cap DOMAIN tables' :
             tables[i].cells_buffer # <<>> /\ tables'[i].cells_buffer = <<>> /\ op' # "init"
                => /\ op' \in SaveOps /\ ~raised'
                   /\ \E j \in Writes(calls') : calls'[j].ok]_vars

\* a Save of two Tables' cells has just raised
C4_Witness ==
    /\ op = "save" /\ raised
    /\ Len(tables) >= 2
    /\ \A i \in DOMAIN tables : tables[i].cells_buffer # <<>>

\* C5 as stated: a Save with nothing staged performs no remote write, and the
\* second of two Saves in a row performs none.
C5_SecondSaveWritesNothing ==
    [][op' \in SaveOps
          => /\ NothingStaged(tables) => Writes(calls') = {}
             /\ op \in SaveOps => Writes(calls') = {}]_vars

\* C5 amended: a Save with nothing staged performs no remote write, a Save
\* performs at most one, and the second of two Saves in a row performs none
\* when the first did not raise.
C5_SecondSaveAfterSuccess ==
    [][op' \in SaveOps
          => /\ NothingStaged(tables) => Writes(calls') = {}
             /\ Cardinality(Writes(calls')) <= 1
             /\ op \in SaveOps /\ ~raised => Writes(calls') = {}]_vars

\* a Save that wrote nothing, after an earlier Save of this logger wrote
C5_Witness ==
    /\ rank = 0 /\ op = "save" /\ ~raised
    /\ calls = <<>>
    /\ written # {}

\* C6: a successful Save with a staged cell issues exactly one batched write,
\* whose list holds the buffers of the Tables in creation order, each in
\* staging order, and leaves every buffer empty.
C6_OneBatchedWrite ==
    [][op' \in SaveOps /\ ~raised' /\ rank = 0 /\ ~NothingStaged(tables)
          => /\ Len(calls') = 1
             /\ calls'[1].api = "update_cells" /\ calls'[1].ok
             /\ Len(calls'[1].cells) = StagedBefore(tables, Len(tables) + 1)
             /\ \A i \in DOMAIN tables : \A j \in DOMAIN tables[i].cells_buffer :
                   calls'[1].cells[StagedBefore(tables, i) + j] = tables[i].cells_buffer[j]
             /\ NothingStaged(tables')
             /\ Len(tables') = Len(tables)]_vars

\* a successful Save has just sent the headers of two Tables
C6_Witness ==
    /\ op = "save" /\ ~raised /\ calls # <<>>
    /\ Len(tables) >= 2
    /\ \E a, b \in DOMAIN calls[1].cells :
          /\ a < b
          /\ calls[1].cells[a].value = Str("loss")
          /\ calls[1].cells[b].value = Str("val_loss")

\* C7: a key-set has one Table, to which every LogMetrics call with that
\* key-set is routed; a Table's column offset and header names never change
\* and no Table is removed or replaced by LogMetrics, Save or Finalize.
C7_SchemaRouting ==
    [][op' # "init"
          => /\ Len(tables') >= Len(tables)
             /\ \A i \in DOMAIN tables :
                   /\ tables'[i].schema = tables[i].schema
                   /\ tables'[i]._col_offset = tables[i]._col_offset
                   /\ tables'[i]._metrics_header = tables[i]._metrics_header
             /\ \A i, j \in DOMAIN tables' :
                   i # j => tables'[i].schema # tables'[j].schema
             /\ op' = "log_metrics" /\ rank = 0
                   => \E i \in DOMAIN tables' :
                         /\ tables'[i].schema = key'
                         /\ i \in DOMAIN tables => Len(logged'[i]) = Len(logged[i]) + 1
                         /\ \A j \in DOMAIN tables : j # i => tables'[j] = tables[j]
             /\ op' # "log_metrics" => Len(tables') = Len(tables)]_vars

\* a key-set has been logged three times, around a Save and a second key-set
C7_Witness ==
    /\ op = "log_metrics"
    /\ Len(tables) = 2
    /\ \E i \in DOMAIN tables : tables[i].schema = key /\ Len(logged[i]) = 3
    /\ written # {}

\* C8: in a process of non-primary rank, constructing the logger and calling
\* its operations make no remote call and stage nothing.
C8_NonPrimaryIdle ==
    rank # 0 => calls = <<>> /\ tables = <<>>

\* the numbers of the version_<integer> folders among files
VersionNumbers(files) ==
    {n \in 0..99 : File(VersionPrefix \o Digits(n), TRUE) \in files}

\* C9: GDriveLogger(...) with no version completes, resolves the version to
\* max(existing) + 1 over the version_<integer> folders of the root folder (0
\* if there is none), names the run folder version_<that number> and returns
\* that number from `version`.
C9_AutoVersion ==
    [][op' \in {"init", "new_logger"} /\ ctor'.arg = VNone
          => LET before == VersionNumbers(IF drive.root THEN drive.files ELSE {})
                 next == IF before = {} THEN 0 ELSE SeqMax(before) + 1
             IN  /\ ctor'.status = "ok"
                 /\ ~raised'
                 /\ Version' = VInt(next)
                 /\ File(VersionPrefix \o Digits(next), TRUE) \in drive'.files]_vars

\* C10: when a successful Save precedes the creation of every Table but the
\* first, Table n starts one blank column after Table n-1 (the first at
\* column 1 when nothing lies before it in the header row), a step column
\* is the first of its block, every Table counts its rows from header_row + 1
\* on its own, and once everything is saved the step column holds the step
\* values of the Table's calls in call order (an absent step leaves the cell
\* empty).
C10_BlocksAfterSave ==
    separated
       => /\ \A n \in DOMAIN tables :
                n > 1 => tables[n]._col_offset
                            = tables[n - 1]._col_offset + HeaderCount(tables[n - 1]) + 1
          /\ tables # <<>>
                /\ (\A x \in DOMAIN ws : x[1] = header_row => x[2] >= tables[1]._col_offset)
                => tables[1]._col_offset = 1
          /\ \A i \in DOMAIN tables :
                LET t == tables[i]
                IN  /\ t._last_step = header_row + 1 + Len(logged[i])
                    /\ (\E j \in DOMAIN t._metrics_header : t._metrics_header[j] = "step")
                          => t._metrics_header[1] = "step"
                    /\ NothingStaged(tables) /\ t._metrics_header[1] = "step"
                          => /\ Stored(ws, header_row, t._col_offset) = Str("step")
                             /\ \A k \in DOMAIN logged[i] :
                                   Stored(ws, header_row + k, t._col_offset) = logged[i][k]

\* two Tables created around a Save, the first logged twice, all saved
C10_Witness ==
    /\ separated
    /\ op = "save" /\ ~raised
    /\ Len(tables) = 2
    /\ NothingStaged(tables)
    /\ tables[1]._metrics_header[1] = "step" /\ tables[2]._metrics_header[1] = "step"
    /\ Len(logged[1]) = 2
    /\ tables[1]._col_offset = 1

\* the cells of the remote calls of an operation, in call order
Sent(cs) == IF cs = <<>> THEN <<>> ELSE cs[1].cells

\* C11: after a Finalize (whatever its status) whose remote write does not
\* raise, every buffer is empty and every cell that was staged has been sent in
\* the batched write; the worksheet holds its value unless a cell sent after it
\* in the same write has the same coordinate or its value is None.
C11_FinalizeFlushes ==
    [][op' = "finalize" /\ ~raised' /\ rank = 0
          => /\ NothingStaged(tables')
             /\ Len(tables') = Len(tables)
             /\ ~NothingStaged(tables) => Cardinality(Writes(calls')) = 1
             /\ \A i \in DOMAIN tables : \A j \in DOMAIN tables[i].cells_buffer :
                   LET c == tables[i].cells_buffer[j]
                       sent == Sent(calls')
                   IN  \E p \in DOMAIN sent :
                          /\ sent[p] = c
                          /\ (c.value # None
                                /\ \A q \in DOMAIN sent : q > p => Coord(sent[q]) # Coord(c))
                             => Stored(ws', c.row, c.col) = c.value]_vars

\* a Finalize has flushed two Tables, one of them holding two data rows
C11_Witness ==
    /\ rank = 0 /\ op = "finalize" /\ ~raised
    /\ Len(calls) = 1 /\ calls[1].api = "update_cells"
    /\ Len(tables) = 2
    /\ NothingStaged(tables)
    /\ Len(logged[1]) = 2
    /\ Len(calls[1].cells) >= 3 * HeaderCount(tables[1]) + 2 * HeaderCount(tables[2])

\* the header row a logger resolved is what its read of B1 returned, 3 for an
\* empty B1, and the worksheet holds it in B1 under the label in A1
HeaderRowResolved ==
    /\ Stored(ws, 1, 1) = Str("header_row")
    /\ Stored(ws, 1, 2) = Num(header_row)
    /\ op = "init"
          => LET read == calls[1].cells[1].value
             IN  /\ calls[1].api = "acell" /\ Coord(calls[1].cells[1]) = <<1, 2>>
                 /\ header_row = IF read = None THEN 3 ELSE read.n
                 /\ calls[2] = Call("update",
                                    <<Cell(1, 1, Str("header_row")),
                                      Cell(1, 2, Num(header_row))>>, TRUE)

\* C12: a logger resolves header_row as the integer in B1, or 3 when B1 is
\* empty, and writes it back on construction; over successive loggers on the
\* same worksheet, whatever is logged and saved, header_row never changes and
\* B1 keeps holding it.
C12_HeaderRowStable ==
    /\ HeaderRowResolved
    /\ [][HeaderRowResolved' /\ header_row' = header_row]_vars

\* a second logger on a worksheet that started with an empty B1 and to which
\* the first logger saved cells
C12_Witness ==
    /\ nsessions = 2 /\ op = "init"
    /\ header_row = 3
    /\ calls[1].cells[1].value = Num(3)
    /\ \E x \in DOMAIN ws : x[1] > 3

\* the header names the creating call of Table i asks for: step when it gave a
\* step, then the keys of its mapping in their order
CreatingNames(lg, h, i) == (IF lg[i][1] # None THEN <<"step">> ELSE <<>>) \o h[i].creating

\* C13: the call that creates a Table performs no remote write and leaves the
\* worksheet unchanged; it stages one header cell per header name at
\* (header_row, column_offset + i), the names being step (when a step was
\* given) and then the keys of the creating mapping in order; in every buffer
\* the header cells come before the data cells, the worksheet changes only in
\* a Save, and a Save that does not raise sends the header cells.
C13_HeaderStaged ==
    [][/\ \A i \in DOMAIN tables' \ DOMAIN tables :
             LET t == tables'[i]
                 names == CreatingNames(logged', history', i)
                 n == Len(names)
                 b == t.cells_buffer
             IN  /\ t._metrics_header = names
                 /\ Len(b) = 2 * n
                 /\ \A j \in 1..n :
                       b[j] = Cell(header_row, t._col_offset + j - 1, Str(names[j]))
                 /\ \A c \in DOMAIN calls' : calls'[c].api \notin {"update_cells", "update"}
                 /\ ws' = ws
       /\ \A i \in DOMAIN tables' :
             LET b == tables'[i].cells_buffer
             IN  /\ tables'[i]._metrics_header = CreatingNames(logged', history', i)
                 /\ \A j \in DOMAIN b :
                       j > 1 /\ b[j].row = header_row => b[j - 1].row = header_row
       /\ ws' # ws => op' \in SaveOps /\ ~raised'
       /\ op' \in SaveOps /\ ~raised' /\ rank = 0
             => \A i \in DOMAIN tables : \A j \in DOMAIN tables[i].cells_buffer :
                   tables[i].cells_buffer[j].row = header_row
                      => \E p \in DOMAIN Sent(calls') :
                            Sent(calls')[p] = tables[i].cells_buffer[j]]_vars

\* a second Table has just been created with a step from a mapping whose keys
\* are acc, loss, while nothing has been saved yet
C13_Witness ==
    /\ rank = 0 /\ op = "log_metrics"
    /\ Len(tables) = 2
    /\ history[2].creating = <<"acc", "loss">>
    /\ tables[2]._metrics_header = <<"step", "acc", "loss">>
    /\ Len(tables[2].cells_buffer) = 6
    /\ tables[2].cells_buffer[2] = Cell(header_row, tables[2]._col_offset + 1, Str("acc"))
    /\ written = {}

\* C14: a LogMetrics on a key-set that already has a Table performs no call to
\* the remote spreadsheet service, leaves the worksheet unchanged, and changes
\* only the buffer and the next row of that Table.
C14_UpdateInMemory ==
    [][op' = "log_metrics" /\ rank = 0 /\ Len(tables') = Len(tables)
          => /\ calls' = <<>>
             /\ ws' = ws
             /\ \E i \in DOMAIN tables :
                   /\ \A j \in DOMAIN tables : j # i => tables'[j] = tables[j]
                   /\ tables'[i] = [tables[i] EXCEPT
                                       !.cells_buffer = tables'[i].cells_buffer,
                                       !._last_step = tables'[i]._last_step]]_vars

\* C15: a direct Update with a row that lacks a header name raises, and the
\* call that raised leaves every Table as it was: no cell added, next row kept.
C15_FailedUpdateLeavesTable ==
    [][op' = "update"
          => /\ raised' <=> \A i \in DOMAIN tables :
                              tables'[i] # tables[i]
                                 => ~({tables[i]._metrics_header[j] :
                                          j \in DOMAIN tables[i]._metrics_header} \subseteq key')
             /\ raised' => tables' = tables]_vars

\* the coordinates of the worksheet that hold a cell this logger did not write
Foreign(w, wr) == DOMAIN w \ wr

\* C16: a logger opened on a worksheet other loggers flushed to starts with no
\* Table: its first LogMetrics for any key-set creates a Table; every Table it
\* creates starts two columns after the last cell stored in the header row
\* (column 1 when the row is empty) with its first data row at header_row + 1;
\* and no cell the logger did not write itself is ever overwritten.
C16_NewSessionAppends ==
    [][/\ op = "init" /\ op' = "log_metrics" /\ rank = 0 => tables = <<>> /\ Len(tables') = 1
       /\ \A i \in DOMAIN tables' \ DOMAIN tables :
             LET t == tables'[i]
                 used == {x[2] : x \in {y \in DOMAIN ws : y[1] = header_row}}
             IN  /\ used # {} => t._col_offset = SeqMax(used) + 2
                 /\ used = {} => t._col_offset = 1
                 /\ t._last_step = header_row + 2
                 /\ \A j \in DOMAIN t.cells_buffer :
                       /\ t.cells_buffer[j].row \in {header_row, header_row + 1}
                       /\ Coord(t.cells_buffer[j]) \notin DOMAIN ws
       /\ \A x \in Foreign(ws, written) :
             /\ x \in DOMAIN ws' /\ ws'[x] = ws[x]
             /\ op' # "init" => x \notin written']_vars

\* a second logger has logged and saved the key-set the first logger had
\* logged and saved: the first logger's cells are still stored, to the left
C16_Witness ==
    /\ nsessions = 2 /\ rank = 0
    /\ op \in SaveOps /\ ~raised
    /\ Len(tables) = 1 /\ written # {}
    /\ tables[1]._metrics_header = <<"step", "loss", "acc">>
    /\ \E x \in Foreign(ws, written) :
          /\ x[1] = header_row /\ ws[x] = Str("loss")
          /\ x[2] + 3 <= tables[1]._col_offset
    /\ \E x \in Foreign(ws, written) : x[1] = header_row + 1
    /\ Stored(ws, header_row + 1, tables[1]._col_offset + 1) = Num(20)

\* the value the logged mappings give a metric, as Table.update stages it
StagedValue(name) ==
    LET metrics == CHOOSE d \in MetricsInputs : name \in Keys(d)
    IN  Item(Get(metrics, name))

\* C17: a Table has a step column exactly when its creating call gave a step,
\* and later calls do not change its header; a later call for its key-set
\* stages one cell per header name: with no step column the step it gives is
\* staged nowhere, with a step column the step it gives (None when it gives
\* none) is staged in the step column of its row.
C17_StepColumnFixed ==
    [][\A i \in DOMAIN tables' :
          LET t == tables'[i]
              names == t._metrics_header
              n == Len(names)
              b == t.cells_buffer
              k == Len(logged'[i])
              hasStep == \E j \in 1..n : names[j] = "step"
          IN  /\ hasStep <=> logged'[i][1] # None
              /\ "step" \in t.schema
              /\ i \in DOMAIN tables => names = tables[i]._metrics_header
              /\ i \in DOMAIN tables /\ k > Len(logged[i])
                    => /\ Len(b) = Len(tables[i].cells_buffer) + n
                       /\ \A j \in 1..n :
                             b[Len(b) - n + j] =
                                Cell(header_row + k, t._col_offset + j - 1,
                                     IF names[j] = "step" THEN logged'[i][k]
                                     ELSE StagedValue(names[j]))]_vars

\* one Table was created with no step and later logged with step 2, another
\* was created with step 1 and later logged with no step
C17_Witness ==
    \E i, j \in DOMAIN tables :
       /\ logged[i] = <<None, Num(2)>>
       /\ tables[i]._metrics_header = <<"val_loss">>
       /\ Len(tables[i].cells_buffer) = 3
       /\ logged[j] = <<Num(1), None>>
       /\ tables[j]._metrics_header[1] = "step"
       /\ Len(tables[j].cells_buffer) = 3 * HeaderCount(tables[j])
       /\ tables[j].cells_buffer[2 * HeaderCount(tables[j]) + 1].value = None

\* C18: in every state LogMetrics, Save and Finalize leave, each pending cell
\* of a Table lies in the Table's block (its columns, rows header_row to
\* next_row - 1), no two pending cells of a Table share a coordinate, and the
\* Table has staged header_count * (next_row - header_row) cells since its
\* creation.
C18_PendingInsideBlock ==
    \A i \in DOMAIN tables :
       LET t == tables[i]
           b == t.cells_buffer
       IN  /\ \A j \in DOMAIN b :
                 /\ b[j].col \in Columns(t)
                 /\ b[j].row \in header_row .. (t._last_step - 1)
           /\ \A j, k \in DOMAIN b : j # k => Coord(b[j]) # Coord(b[k])
           /\ history[i].staged = HeaderCount(t) * (t._last_step - header_row)
           /\ Len(b) <= history[i].staged

\* a Table of three columns logged, saved, and logged twice more: two of its
\* four staged rows are pending
C18_Witness ==
    \E i \in DOMAIN tables :
       /\ op = "log_metrics"
       /\ HeaderCount(tables[i]) = 3
       /\ Len(tables[i].cells_buffer) = 6
       /\ history[i].staged = 12
       /\ written # {}

====
